---- MODULE Spec2Model ----
(***************************************************************************)
(* The TravelAgent component of day-dream-itinerary, in its three          *)
(* revisions:                                                              *)
(*   "rule"  src/src/components/TravelAgent.tsx  keyword/regex chat        *)
(*           extractor, real flight and hotel search calls                 *)
(*   "llm"   src/unnamed/part_000  remote-LLM chat extractor, mock flight  *)
(*           and hotel data delivered by a timer                           *)
(*   "form"  src/unnamed/part_001  no chatbot, flight search only          *)
(* The variables are the component's React state, the remote calls and    *)
(* timers that are outstanding, and toast, the notice the last step        *)
(* issued ("none" when it issued none).  One action is one handler run up  *)
(* to its next await: React applies the state updates of such a run in one *)
(* batch, and no other handler runs in between.                            *)
(* Text is a sequence of one-character strings, so that trim, includes and *)
(* the regular expressions of the rule-based extractor are computed.       *)
(***************************************************************************)
EXTENDS Integers, Sequences, FiniteSets, TLC

VARIABLES rev, userInput, apiKey, serpApiKey, isLoading, isLoadingFlights,
          isLoadingHotels, travelPlan, flightParams, flights, hotels,
          showFlightSearch, showChatbot, chatMessages, chatInput,
          pendingExtractions, pendingFlights, pendingHotels, toast

vars == <<rev, userInput, apiKey, serpApiKey, isLoading, isLoadingFlights,
          isLoadingHotels, travelPlan, flightParams, flights, hotels,
          showFlightSearch, showChatbot, chatMessages, chatInput,
          pendingExtractions, pendingFlights, pendingHotels, toast>>

(* ------------------------------ bounds -------------------------------- *)

\* longest transcript a chat submission may still extend
MaxTranscript == 5

\* most extraction requests outstanding at once
MaxPendingExtractions == 2

\* most flight (hotel) searches or mock timers outstanding at once
MaxPendingSearches == 2

(* ------------------------------- text --------------------------------- *)

UpperCase == <<"A","B","C","D","E","F","G","H","I","J","K","L","M",
               "N","O","P","Q","R","S","T","U","V","W","X","Y","Z">>

LowerCase == <<"a","b","c","d","e","f","g","h","i","j","k","l","m",
               "n","o","p","q","r","s","t","u","v","w","x","y","z">>

Digits == <<"0","1","2","3","4","5","6","7","8","9">>

IsUpper(c) == \E k \in DOMAIN UpperCase : UpperCase[k] = c

IsLower(c) == \E k \in DOMAIN LowerCase : LowerCase[k] = c

IsDigit(c) == \E k \in DOMAIN Digits : Digits[k] = c

\* \s of a JavaScript regular expression and of String.prototype.trim
IsSpace(c) == c \in {" ", "\t", "\n", "\r"}

DigitValue(c) == (CHOOSE k \in DOMAIN Digits : Digits[k] = c) - 1

LowerChar(c) ==
  IF IsUpper(c) THEN LowerCase[CHOOSE k \in DOMAIN UpperCase : UpperCase[k] = c]
  ELSE c

toLowerCase(s) == [i \in 1..Len(s) |-> LowerChar(s[i])]

MinOf(S) == CHOOSE x \in S : \A y \in S : x <= y

MaxOf(S) == CHOOSE x \in S : \A y \in S : y <= x

trim(s) ==
  LET keep == {i \in 1..Len(s) : ~IsSpace(s[i])}
  IN  IF keep = {} THEN <<>> ELSE SubSeq(s, MinOf(keep), MaxOf(keep))

\* s.includes(sub)
includes(s, sub) ==
  \E p \in 1..(Len(s) - Len(sub) + 1) : SubSeq(s, p, p + Len(sub) - 1) = sub

\* the end of the longest run of positions of s within ok that starts at p
RunEnd(s, p, ok) ==
  MaxOf({e \in (p-1)..Len(s) : \A i \in p..e : i \in ok})

(* --------------------------- JavaScript values ------------------------ *)

Null == [type |-> "null"]

NaN == [type |-> "NaN"]

Num(n) == [type |-> "number", num |-> n]

Str(s) == [type |-> "string", str |-> s]

\* ToBoolean
Truthy(v) ==
  CASE v.type = "number" -> v.num # 0
    [] v.type = "string" -> v.str # <<>>
    [] OTHER -> FALSE

(* ------------------- literals of the source, as text ------------------ *)
\* 'departure'
kwDeparture == <<"d","e","p","a","r","t","u","r","e">>
\* 'from'
kwFrom == <<"f","r","o","m">>
\* 'budget'
kwBudget == <<"b","u","d","g","e","t">>
\* 'budget-friendly'
kwBudgetFriendly == <<"b","u","d","g","e","t","-","f","r","i","e","n","d","l","y">>
\* 'cheap'
kwCheap == <<"c","h","e","a","p">>
\* 'luxury'
kwLuxury == <<"l","u","x","u","r","y">>
\* 'premium'
kwPremium == <<"p","r","e","m","i","u","m">>
\* 'passenger'
kwPassenger == <<"p","a","s","s","e","n","g","e","r">>
\* 'people'
kwPeople == <<"p","e","o","p","l","e">>
\* 'mid-range'
MidRange == <<"m","i","d","-","r","a","n","g","e">>
\* 'budget-friendly', the budget tier
BudgetFriendly == kwBudgetFriendly

\* 'luxury', the budget tier
Luxury == kwLuxury

(* ------------------- regular expressions and parseInt ----------------- *)

RECURSIVE DecimalValue(_)
DecimalValue(ds) ==
  IF ds = <<>> THEN 0
  ELSE 10 * DecimalValue(SubSeq(ds, 1, Len(ds) - 1)) + DigitValue(ds[Len(ds)])

\* parseInt(s): leading white space, an optional sign, then the longest run of
\* decimal digits; NaN when there is no digit there
parseInt(s) ==
  LET body  == {i \in 1..Len(s) : ~IsSpace(s[i])}
      start == IF body = {} THEN Len(s) + 1 ELSE MinOf(body)
      neg   == start <= Len(s) /\ s[start] = "-"
      from  == IF start <= Len(s) /\ s[start] \in {"-", "+"} THEN start + 1 ELSE start
      to    == RunEnd(s, from, {i \in DOMAIN s : IsDigit(s[i])})
  IN  IF to < from THEN NaN
      ELSE Num((IF neg THEN -1 ELSE 1) * DecimalValue(SubSeq(s, from, to)))

\* [^,.\n]
NotCommaDotNewline(c) == c \notin {",", ".", "\n"}

\* [A-Za-z\s]
IsLetterOrSpace(c) == IsUpper(c) \/ IsLower(c) \/ IsSpace(c)

\* . of a regular expression without the s flag
NotLineTerminator(c) == c \notin {"\n", "\r"}

\* the literal kw matches at position p, ignoring case (the i flag)
LiteralAt(s, p, kw) ==
  /\ p + Len(kw) - 1 <= Len(s)
  /\ toLowerCase(SubSeq(s, p, p + Len(kw) - 1)) = kw

\* /from\s+([^,.\n]+)/i at position p: the positions where \s+ may end, the
\* group starting right after; \s+ is greedy, so the last one is taken
FromSpaceEnds(s, p) ==
  LET q == p + Len(kwFrom)
  IN  {j \in q..RunEnd(s, q, {i \in DOMAIN s : IsSpace(s[i])}) :
         j + 1 <= Len(s) /\ NotCommaDotNewline(s[j + 1])}

\* userMessage.match(/from\s+([^,.\n]+)/i): Null, or group 1 of the leftmost match
matchFrom(s) ==
  LET at == {p \in 1..Len(s) : LiteralAt(s, p, kwFrom) /\ FromSpaceEnds(s, p) # {}}
  IN  IF at = {} THEN Null
      ELSE LET g == MaxOf(FromSpaceEnds(s, MinOf(at))) + 1
           IN  Str(SubSeq(s, g, RunEnd(s, g, {i \in DOMAIN s : NotCommaDotNewline(s[i])})))

\* /departure.*?([A-Za-z\s]+)/i at position p: the positions where the group
\* may start; .*? is lazy, so the first one is taken
DepartureGroupStarts(s, p) ==
  LET q == p + Len(kwDeparture)
  IN  {g \in q..Len(s) :
         /\ IsLetterOrSpace(s[g])
         /\ \A i \in q..(g - 1) : NotLineTerminator(s[i])}

\* userMessage.match(/departure.*?([A-Za-z\s]+)/i)
matchDeparture(s) ==
  LET at == {p \in 1..Len(s) :
               LiteralAt(s, p, kwDeparture) /\ DepartureGroupStarts(s, p) # {}}
  IN  IF at = {} THEN Null
      ELSE LET g == MinOf(DepartureGroupStarts(s, MinOf(at)))
           IN  Str(SubSeq(s, g, RunEnd(s, g, {i \in DOMAIN s : IsLetterOrSpace(s[i])})))

\* userMessage.match(/(\d+)/)
matchNumber(s) ==
  LET at == {p \in 1..Len(s) : IsDigit(s[p])}
  IN  IF at = {} THEN Null
      ELSE Str(SubSeq(s, MinOf(at), RunEnd(s, MinOf(at), {i \in DOMAIN s : IsDigit(s[i])})))

(* ------------------------------- inputs ------------------------------- *)

Revisions == {"rule", "llm", "form"}

\* the revisions that render the chatbot and the hotel search
HasChatbot == rev \in {"rule", "llm"}

\* what the user may type into the travel description: " Rome"
UserInputs == {<<" ","R","o","m","e">>}

\* what the user may type into an API key field
KeyInputs == {"", "key"}

\* destinations the itinerary service may answer with
Destinations == {"Rome"}

\* days the itinerary service may answer with
Durations == {3}

NY == <<"N","Y">>

\* what the user may type into the chat box of the rule-based revision:
\*   "from NY ", "from  ,", "12 people", "0 people"
RuleChatInputs ==
  { <<"f","r","o","m"," ","N","Y"," ">>,
    <<"f","r","o","m"," "," ",",">>,
    <<"1","2"," ","p","e","o","p","l","e">>,
    <<"0"," ","p","e","o","p","l","e">> }

\* what the user may type into the chat box of the LLM revision, where the
\* remote model and not the text decides the update: " hi"
LlmChatInputs == {<<" ","h","i">>}

ChatInputs == IF rev = "rule" THEN RuleChatInputs ELSE LlmChatInputs

\* what the user may type into the departure city field
CityInputs == {<<>>, NY}

\* a date as the date input and the model give it, YYYY-MM-DD
Aug5 == <<"2","0","2","5","-","0","8","-","0","5">>

DateInputs == {<<>>, Aug5}

\* what the user may type into the passengers field: "", "-3"
PassengerInputs == {<<>>, <<"-","3">>}

\* the options of the budget select
BudgetOptions == {BudgetFriendly, MidRange, Luxury}

\* how a remote call may fail before its result is read
FailureKinds == {"network error", "status not ok", "unparsable response"}

\* result.updates.passengers of the extraction response
PassengerUpdates == {Null, Num(0), Num(4), Num(-3), Str(<<"a","b","c">>)}

NoUpdates ==
  [departureCity |-> Null, departureDate |-> Null, returnDate |-> Null,
   passengers |-> Null, budget |-> Null]

\* an update that mentions every other field, with passengers p
EveryField(p) ==
  [departureCity |-> Str(NY), departureDate |-> Str(Aug5),
   returnDate |-> Str(Aug5), passengers |-> p, budget |-> Str(Luxury)]

\* the updates tried
Updates ==
  { NoUpdates,
    [NoUpdates EXCEPT !.departureCity = Str(<<>>)],
    [NoUpdates EXCEPT !.departureCity = Str(NY)],
    [NoUpdates EXCEPT !.passengers = Num(4)] }
  \cup {EveryField(p) : p \in PassengerUpdates}

\* result.responseMessage
ResponseMessages == {<<"o","k">>}

\* the parsed content of an extraction response that is an object
ExtractionResults ==
  [hasUpdates : {TRUE}, updates : Updates, responseMessage : ResponseMessages]
    \cup
  [hasUpdates : {FALSE}, updates : {NoUpdates, EveryField(Num(4))},
   responseMessage : ResponseMessages]

\* the parsed content of an itinerary response
ItineraryResults ==
  [isTravel : {FALSE}] \cup
  [isTravel : {TRUE}, destination : Destinations, duration : Durations]

(* --------------------------- transcript entries ----------------------- *)

UserEntry(text) == [role |-> "user", content |-> [kind |-> "text", text |-> text]]

ReplyEntry(text) == [role |-> "assistant", content |-> [kind |-> "text", text |-> text]]

\* "Analyzing your message..."
Placeholder == [role |-> "assistant", content |-> [kind |-> "analyzing"]]

\* "Sorry, I had trouble understanding your message. ..."
FallbackReply == [role |-> "assistant", content |-> [kind |-> "sorry"]]

\* "I've updated your preferences! ..."
Acknowledgement == [role |-> "assistant", content |-> [kind |-> "updated"]]

\* "I've created your <duration>-day itinerary for <destination>! ..."
Greeting(plan) ==
  [role |-> "assistant",
   content |-> [kind |-> "created", destination |-> plan.destination,
                duration |-> plan.duration]]

\* prev.slice(0, -1)
DropLast(s) == SubSeq(s, 1, Len(s) - 1)

\* a sequence without its i-th element
RemoveAt(s, i) == SubSeq(s, 1, i - 1) \o SubSeq(s, i + 1, Len(s))

(* ---------------------------- initial state --------------------------- *)

NoPlan == [type |-> "null"]

DefaultParams ==
  IF rev = "form"
  THEN [departureCity |-> <<>>, departureDate |-> <<>>, returnDate |-> <<>>,
        passengers |-> Num(1)]
  ELSE [departureCity |-> <<>>, departureDate |-> <<>>, returnDate |-> <<>>,
        passengers |-> Num(1), budget |-> MidRange]

Init ==
  /\ rev \in Revisions
  /\ userInput = <<>>
  /\ apiKey = ""
  /\ serpApiKey = ""
  /\ isLoading = FALSE
  /\ isLoadingFlights = FALSE
  /\ isLoadingHotels = FALSE
  /\ travelPlan = NoPlan
  /\ flightParams = DefaultParams
  /\ flights = <<>>
  /\ hotels = <<>>
  /\ showFlightSearch = FALSE
  /\ showChatbot = FALSE
  /\ chatMessages = <<>>
  /\ chatInput = <<>>
  /\ pendingExtractions = <<>>
  /\ pendingFlights = <<>>
  /\ pendingHotels = <<>>
  /\ toast = "none"

(* ----------------------- the always-visible inputs -------------------- *)

\* the variables no plain input field touches
Controls ==
  <<rev, isLoading, isLoadingFlights, isLoadingHotels, travelPlan, flights,
    hotels, showFlightSearch, showChatbot, chatMessages, pendingExtractions,
    pendingFlights, pendingHotels>>

setApiKey ==
  /\ \E v \in KeyInputs : apiKey' = v
  /\ toast' = "none"
  /\ UNCHANGED <<Controls, userInput, serpApiKey, flightParams, chatInput>>

setUserInput ==
  /\ \E v \in UserInputs : userInput' = v
  /\ toast' = "none"
  /\ UNCHANGED <<Controls, apiKey, serpApiKey, flightParams, chatInput>>

(* ------------------------- itinerary generation ----------------------- *)

\* the variables handleSubmit never touches
ItineraryFrame ==
  <<rev, userInput, apiKey, serpApiKey, isLoadingFlights, isLoadingHotels,
    flightParams, flights, hotels, chatInput, pendingExtractions,
    pendingFlights, pendingHotels>>

\* a variant that raises the loading flag before it looks at the key
handleSubmitLoadingFirst ==
  /\ ~isLoading
  /\ isLoading' = TRUE
  /\ IF apiKey = ""
     THEN toast' = "API Key Required"
     ELSE IF trim(userInput) = <<>>
     THEN toast' = "Input Required"
     ELSE toast' = "none"
  /\ UNCHANGED <<ItineraryFrame, travelPlan, showFlightSearch, showChatbot,
                 chatMessages>>

\* handleSubmit up to its fetch.  The submit button is disabled while
\* isLoading, so isLoading is also "the itinerary call is outstanding".
handleSubmit ==
  /\ ~isLoading
  /\ IF apiKey = ""
     THEN /\ toast' = "API Key Required"
          /\ UNCHANGED isLoading
     ELSE IF trim(userInput) = <<>>
     THEN /\ toast' = "Input Required"
          /\ UNCHANGED isLoading
     ELSE /\ toast' = "none"
          /\ isLoading' = TRUE
  /\ UNCHANGED <<ItineraryFrame, travelPlan, showFlightSearch, showChatbot,
                 chatMessages>>

\* handleSubmit from a result with isTravel to the end
itineraryGenerated ==
  /\ isLoading
  /\ \E result \in {r \in ItineraryResults : r.isTravel} :
       LET plan == [type |-> "plan", destination |-> result.destination,
                    duration |-> result.duration]
       IN  /\ travelPlan' = plan
           /\ IF rev = "form"
              THEN /\ showFlightSearch' = TRUE
                   /\ UNCHANGED <<showChatbot, chatMessages>>
              ELSE /\ showChatbot' = TRUE
                   /\ chatMessages' = <<Greeting(plan)>>
                   /\ UNCHANGED showFlightSearch
  /\ toast' = "Itinerary Generated!"
  /\ isLoading' = FALSE
  /\ UNCHANGED ItineraryFrame

\* a variant whose else branch also discards the itinerary
itineraryNotTravelClearsPlan ==
  /\ isLoading
  /\ \E result \in {r \in ItineraryResults : ~r.isTravel} :
       toast' = "Not a Travel Request"
  /\ isLoading' = FALSE
  /\ travelPlan' = NoPlan
  /\ UNCHANGED <<ItineraryFrame, showFlightSearch, showChatbot, chatMessages>>

\* handleSubmit from a result without isTravel to the end
itineraryNotTravel ==
  /\ isLoading
  /\ \E result \in {r \in ItineraryResults : ~r.isTravel} :
       toast' = "Not a Travel Request"
  /\ isLoading' = FALSE
  /\ UNCHANGED <<ItineraryFrame, travelPlan, showFlightSearch, showChatbot,
                 chatMessages>>

\* a variant whose catch block also closes the conversation
itineraryFailedClosesChat ==
  /\ isLoading
  /\ \E kind \in FailureKinds : toast' = "Error"
  /\ isLoading' = FALSE
  /\ showChatbot' = FALSE
  /\ chatMessages' = <<>>
  /\ UNCHANGED <<ItineraryFrame, travelPlan, showFlightSearch>>

\* handleSubmit from a failed call, through its catch block, to the end
itineraryFailed ==
  /\ isLoading
  /\ \E kind \in FailureKinds : toast' = "Error"
  /\ isLoading' = FALSE
  /\ UNCHANGED <<ItineraryFrame, travelPlan, showFlightSearch, showChatbot,
                 chatMessages>>

(* ------------------------------ the chatbot --------------------------- *)

\* the variables no chat turn touches
ChatFrame ==
  <<rev, userInput, apiKey, serpApiKey, isLoading, isLoadingFlights,
    isLoadingHotels, travelPlan, flights, hotels, showChatbot, pendingFlights,
    pendingHotels>>

setChatInput ==
  /\ HasChatbot
  /\ showChatbot
  /\ \E v \in ChatInputs : chatInput' = v
  /\ toast' = "none"
  /\ UNCHANGED <<Controls, userInput, apiKey, serpApiKey, flightParams>>

\* a variant that tries the departure pattern before the from pattern
ruleDepartureCityDepartureFirst(prev, userMessage) ==
  LET lowerMessage   == toLowerCase(userMessage)
      departureMatch == matchDeparture(userMessage)
      cityMatch      == IF departureMatch # Null THEN departureMatch
                        ELSE matchFrom(userMessage)
  IN  IF /\ includes(lowerMessage, kwDeparture) \/ includes(lowerMessage, kwFrom)
         /\ cityMatch # Null
      THEN [prev EXCEPT !.departureCity = trim(cityMatch.str)]
      ELSE prev

\* the departure-city rule of the rule-based handleChatSubmit
ruleDepartureCity(prev, userMessage) ==
  LET lowerMessage == toLowerCase(userMessage)
      fromMatch    == matchFrom(userMessage)
      cityMatch    == IF fromMatch # Null THEN fromMatch
                      ELSE matchDeparture(userMessage)
  IN  IF /\ includes(lowerMessage, kwDeparture) \/ includes(lowerMessage, kwFrom)
         /\ cityMatch # Null
      THEN [prev EXCEPT !.departureCity = trim(cityMatch.str)]
      ELSE prev

\* a variant that looks for the tier keywords in every message
ruleBudgetAnyMessage(prev, userMessage) ==
  LET lowerMessage == toLowerCase(userMessage)
  IN  IF \/ includes(lowerMessage, kwBudgetFriendly)
         \/ includes(lowerMessage, kwCheap)
         \/ includes(lowerMessage, kwBudget)
      THEN [prev EXCEPT !.budget = BudgetFriendly]
      ELSE IF includes(lowerMessage, kwLuxury) \/ includes(lowerMessage, kwPremium)
      THEN [prev EXCEPT !.budget = Luxury]
      ELSE prev

\* the budget rule of the rule-based handleChatSubmit
ruleBudget(prev, userMessage) ==
  LET lowerMessage == toLowerCase(userMessage)
  IN  IF includes(lowerMessage, kwBudget)
      THEN IF \/ includes(lowerMessage, kwBudgetFriendly)
              \/ includes(lowerMessage, kwCheap)
              \/ includes(lowerMessage, kwBudget)
           THEN [prev EXCEPT !.budget = BudgetFriendly]
           ELSE IF includes(lowerMessage, kwLuxury) \/ includes(lowerMessage, kwPremium)
           THEN [prev EXCEPT !.budget = Luxury]
           ELSE [prev EXCEPT !.budget = MidRange]
      ELSE prev

\* a variant that takes the number of every message
rulePassengersAnyMessage(prev, userMessage) ==
  LET numberMatch == matchNumber(userMessage)
  IN  IF numberMatch # Null
      THEN [prev EXCEPT !.passengers = parseInt(numberMatch.str)]
      ELSE prev

\* the passengers rule of the rule-based handleChatSubmit
rulePassengers(prev, userMessage) ==
  LET lowerMessage == toLowerCase(userMessage)
      numberMatch  == matchNumber(userMessage)
  IN  IF /\ includes(lowerMessage, kwPassenger) \/ includes(lowerMessage, kwPeople)
         /\ numberMatch # Null
      THEN [prev EXCEPT !.passengers = parseInt(numberMatch.str)]
      ELSE prev

\* the three setFlightParams updaters of the rule-based handleChatSubmit, in
\* the order they are queued
ruleBasedParams(prev, userMessage) ==
  rulePassengers(ruleBudget(ruleDepartureCity(prev, userMessage), userMessage),
                 userMessage)

\* a variant that shows the search form only when the turn changed the record
handleChatSubmitRuleIfChanged ==
  /\ rev = "rule"
  /\ showChatbot
  /\ Len(chatMessages) + 2 <= MaxTranscript
  /\ toast' = "none"
  /\ IF trim(chatInput) = <<>>
     THEN UNCHANGED <<chatMessages, chatInput, flightParams, showFlightSearch>>
     ELSE LET userMessage == trim(chatInput)
          IN  /\ chatMessages' =
                   chatMessages \o <<UserEntry(userMessage), Acknowledgement>>
              /\ chatInput' = <<>>
              /\ flightParams' = ruleBasedParams(flightParams, userMessage)
              /\ showFlightSearch' =
                   (showFlightSearch \/ flightParams' # flightParams)
  /\ UNCHANGED <<ChatFrame, pendingExtractions>>

\* handleChatSubmit of the rule-based revision
handleChatSubmitRule ==
  /\ rev = "rule"
  /\ showChatbot
  /\ Len(chatMessages) + 2 <= MaxTranscript
  /\ toast' = "none"
  /\ IF trim(chatInput) = <<>>
     THEN UNCHANGED <<chatMessages, chatInput, flightParams, showFlightSearch>>
     ELSE LET userMessage == trim(chatInput)
          IN  /\ chatMessages' =
                   chatMessages \o <<UserEntry(userMessage), Acknowledgement>>
              /\ chatInput' = <<>>
              /\ flightParams' = ruleBasedParams(flightParams, userMessage)
              /\ showFlightSearch' = TRUE
  /\ UNCHANGED <<ChatFrame, pendingExtractions>>

\* handleChatSubmit of the LLM revision up to its fetch; the Send button is
\* never disabled
handleChatSubmit ==
  /\ rev = "llm"
  /\ showChatbot
  /\ Len(chatMessages) + 2 <= MaxTranscript
  /\ Len(pendingExtractions) < MaxPendingExtractions
  /\ IF trim(chatInput) = <<>>
     THEN /\ toast' = "none"
          /\ UNCHANGED <<chatMessages, chatInput, pendingExtractions>>
     ELSE IF apiKey = ""
     THEN /\ toast' = "Groq API Key Required"
          /\ UNCHANGED <<chatMessages, chatInput, pendingExtractions>>
     ELSE LET userMessage == trim(chatInput)
          IN  /\ toast' = "none"
              /\ chatMessages' =
                   chatMessages \o <<UserEntry(userMessage), Placeholder>>
              /\ chatInput' = <<>>
              /\ pendingExtractions' =
                   Append(pendingExtractions,
                          [userMessage |-> userMessage,
                           showFlightSearch |-> showFlightSearch])
  /\ UNCHANGED <<ChatFrame, flightParams, showFlightSearch>>

\* the setFlightParams updater of the LLM handleChatSubmit: a field of
\* updates overwrites when it is truthy
mergeUpdates(prev, updates) ==
  [prev EXCEPT
     !.departureCity = IF Truthy(updates.departureCity)
                       THEN updates.departureCity.str ELSE @,
     !.departureDate = IF Truthy(updates.departureDate)
                       THEN updates.departureDate.str ELSE @,
     !.returnDate    = IF Truthy(updates.returnDate)
                       THEN updates.returnDate.str ELSE @,
     !.passengers    = IF Truthy(updates.passengers)
                       THEN updates.passengers ELSE @,
     !.budget        = IF Truthy(updates.budget)
                       THEN updates.budget.str ELSE @]

\* a variant whose catch block removes the placeholder and appends nothing
extractionCaughtSilent(transcript) == DropLast(transcript)

\* the catch block of the LLM handleChatSubmit
extractionCaught(transcript) == DropLast(transcript) \o <<FallbackReply>>

\* a variant that writes the negation of the captured flag
revealSearchFormToggled(captured, current) == ~captured

\* if (!showFlightSearch) setShowFlightSearch(true), where the condition reads
\* the flag as the handler captured it and current is the flag at the update
revealSearchForm(captured, current) == IF ~captured THEN TRUE ELSE current

\* the LLM handleChatSubmit of request i, from a call that failed or whose
\* content is no JSON, to the end
extractionFailed(i) ==
  /\ rev = "llm"
  /\ i \in DOMAIN pendingExtractions
  /\ pendingExtractions' = RemoveAt(pendingExtractions, i)
  /\ chatMessages' = extractionCaught(chatMessages)
  /\ toast' = "none"
  /\ UNCHANGED <<ChatFrame, chatInput, flightParams, showFlightSearch>>

\* the same from a content that parses to null: the placeholder is removed,
\* result.hasUpdates throws, and the catch block runs
extractionNull(i) ==
  /\ rev = "llm"
  /\ i \in DOMAIN pendingExtractions
  /\ pendingExtractions' = RemoveAt(pendingExtractions, i)
  /\ chatMessages' = extractionCaught(DropLast(chatMessages))
  /\ toast' = "none"
  /\ UNCHANGED <<ChatFrame, chatInput, flightParams, showFlightSearch>>

\* the same from a content that parses to an object; showFlightSearch is read
\* as the handler captured it when it started
extractionResult(i, result) ==
  /\ rev = "llm"
  /\ i \in DOMAIN pendingExtractions
  /\ pendingExtractions' = RemoveAt(pendingExtractions, i)
  /\ chatMessages' =
       DropLast(chatMessages) \o <<ReplyEntry(result.responseMessage)>>
  /\ IF result.hasUpdates
     THEN /\ flightParams' = mergeUpdates(flightParams, result.updates)
          /\ showFlightSearch' =
               revealSearchForm(pendingExtractions[i].showFlightSearch,
                                showFlightSearch)
     ELSE UNCHANGED <<flightParams, showFlightSearch>>
  /\ toast' = "none"
  /\ UNCHANGED <<ChatFrame, chatInput>>

handleChatSubmitFailed ==
  \E i \in DOMAIN pendingExtractions, kind \in FailureKinds : extractionFailed(i)

handleChatSubmitNull ==
  \E i \in DOMAIN pendingExtractions : extractionNull(i)

handleChatSubmitResult ==
  \E i \in DOMAIN pendingExtractions, result \in ExtractionResults :
    extractionResult(i, result)

(* ---------------------------- the search form ------------------------ *)

\* the variables no field of the search form touches
FormControls == <<Controls, userInput, apiKey, chatInput>>

setSerpApiKey ==
  /\ showFlightSearch
  /\ \E v \in KeyInputs : serpApiKey' = v
  /\ toast' = "none"
  /\ UNCHANGED <<FormControls, flightParams>>

editDepartureCity ==
  /\ showFlightSearch
  /\ \E v \in CityInputs : flightParams' = [flightParams EXCEPT !.departureCity = v]
  /\ toast' = "none"
  /\ UNCHANGED <<FormControls, serpApiKey>>

\* parseInt(e.target.value) || 1
passengersOfInput(v) ==
  LET n == parseInt(v) IN IF Truthy(n) THEN n ELSE Num(1)

editPassengers ==
  /\ showFlightSearch
  /\ \E v \in PassengerInputs :
       flightParams' = [flightParams EXCEPT !.passengers = passengersOfInput(v)]
  /\ toast' = "none"
  /\ UNCHANGED <<FormControls, serpApiKey>>

editBudget ==
  /\ HasChatbot
  /\ showFlightSearch
  /\ \E v \in BudgetOptions : flightParams' = [flightParams EXCEPT !.budget = v]
  /\ toast' = "none"
  /\ UNCHANGED <<FormControls, serpApiKey>>

editDepartureDate ==
  /\ showFlightSearch
  /\ \E v \in DateInputs : flightParams' = [flightParams EXCEPT !.departureDate = v]
  /\ toast' = "none"
  /\ UNCHANGED <<FormControls, serpApiKey>>

editReturnDate ==
  /\ showFlightSearch
  /\ \E v \in DateInputs : flightParams' = [flightParams EXCEPT !.returnDate = v]
  /\ toast' = "none"
  /\ UNCHANGED <<FormControls, serpApiKey>>

(* ------------------------------ flight search ------------------------ *)

\* the variables neither search touches
SearchFrame ==
  <<rev, userInput, apiKey, serpApiKey, isLoading, travelPlan, flightParams,
    showFlightSearch, showChatbot, chatMessages, chatInput, pendingExtractions>>

\* a variant that tests the two dates only
canSearchFlightsDatesOnly(record) ==
  ~(record.departureDate = <<>> \/ record.returnDate = <<>>)

\* the second early return of searchFlights does not apply
canSearchFlights(record) ==
  ~(record.departureCity = <<>> \/ record.departureDate = <<>>
      \/ record.returnDate = <<>>)

\* a variant that also requires the departure city
canSearchHotelsWithCity(record) ==
  ~(record.departureCity = <<>> \/ record.departureDate = <<>>
      \/ record.returnDate = <<>>)

\* the second early return of searchHotels does not apply
canSearchHotels(record) ==
  ~(record.departureDate = <<>> \/ record.returnDate = <<>>)

\* data.best_flights.slice(0, 5)
MaxFlightsShown == 5

\* data.properties.slice(0, 6)
MaxHotelsShown == 6

\* data.best_flights of a flight search response; "none" when the field is absent
FlightResponses ==
  {"none", <<>>, <<"f9">>, <<"f1", "f2", "f3", "f4", "f5", "f6">>}

\* the departure tokens of mockFlights
MockFlights == <<"mock_1", "mock_2", "mock_3">>

\* a variant that keeps the whole list
SliceAll(s, n) == s

\* s.slice(0, n)
Slice(s, n) == SubSeq(s, 1, IF Len(s) < n THEN Len(s) ELSE n)

\* searchFlights up to its fetch (rule, form) or to its end (llm, where the
\* finally block clears the loading flag in the same batch and the mock data
\* arrive by a timer).  The button is disabled while isLoadingFlights.
searchFlights ==
  /\ showFlightSearch
  /\ ~isLoadingFlights
  /\ Len(pendingFlights) < MaxPendingSearches
  /\ IF serpApiKey = ""
     THEN /\ toast' = "SERP API Key Required"
          /\ UNCHANGED <<isLoadingFlights, pendingFlights>>
     ELSE IF ~canSearchFlights(flightParams)
     THEN /\ toast' = "Missing Information"
          /\ UNCHANGED <<isLoadingFlights, pendingFlights>>
     ELSE IF rev = "llm"
     THEN /\ toast' = "CORS Issue Detected"
          /\ pendingFlights' = Append(pendingFlights, [kind |-> "timer"])
          /\ isLoadingFlights' = FALSE
     ELSE /\ toast' = "none"
          /\ pendingFlights' = Append(pendingFlights, [kind |-> "fetch"])
          /\ isLoadingFlights' = TRUE
  /\ UNCHANGED <<SearchFrame, isLoadingHotels, flights, hotels, pendingHotels>>

\* searchFlights of rule and form, from the result of its fetch to the end
searchFlightsResult ==
  /\ \E i \in DOMAIN pendingFlights :
       /\ pendingFlights[i].kind = "fetch"
       /\ pendingFlights' = RemoveAt(pendingFlights, i)
  /\ \E best \in FlightResponses :
       IF best # "none" /\ Len(best) > 0
       THEN /\ flights' = Slice(best, MaxFlightsShown)
            /\ toast' = "Flights Found!"
       ELSE /\ toast' = "No Flights Found"
            /\ UNCHANGED flights
  /\ isLoadingFlights' = FALSE
  /\ UNCHANGED <<SearchFrame, isLoadingHotels, hotels, pendingHotels>>

\* searchFlights of rule and form, from a failed fetch to the end
searchFlightsFailed ==
  /\ \E i \in DOMAIN pendingFlights :
       /\ pendingFlights[i].kind = "fetch"
       /\ pendingFlights' = RemoveAt(pendingFlights, i)
  /\ \E kind \in FailureKinds : toast' = "Error"
  /\ isLoadingFlights' = FALSE
  /\ UNCHANGED <<SearchFrame, isLoadingHotels, flights, hotels, pendingHotels>>

\* the setTimeout callback of the llm searchFlights
searchFlightsTimer ==
  /\ \E i \in DOMAIN pendingFlights :
       /\ pendingFlights[i].kind = "timer"
       /\ pendingFlights' = RemoveAt(pendingFlights, i)
  /\ flights' = MockFlights
  /\ toast' = "Mock Flights Loaded!"
  /\ isLoadingFlights' = FALSE
  /\ UNCHANGED <<SearchFrame, isLoadingHotels, hotels, pendingHotels>>

(* ------------------------------ hotel search -------------------------- *)

\* data.properties of a hotel search response; "none" when the field is absent
HotelResponses ==
  {"none", <<>>, <<"h9">>, <<"h1", "h2", "h3", "h4", "h5", "h6", "h7">>}

\* mockHotels, by name and price
MockHotels ==
  << [name |-> "Conrad Maldives Rangali Island", price |-> 1200],
     [name |-> "Four Seasons Resort Maldives", price |-> 1500],
     [name |-> "Baros Maldives", price |-> 950],
     [name |-> "Kurumba Maldives", price |-> 650] >>

\* mockHotels.filter(...), for the budget the callback captured
filteredHotels(budget) ==
  LET Keep(hotel) ==
        IF budget = BudgetFriendly THEN hotel.price < 800
        ELSE IF budget = Luxury THEN hotel.price > 1000
        ELSE hotel.price >= 800 /\ hotel.price <= 1000
  IN  SelectSeq(MockHotels, Keep)

\* hotel.name of each hotel
Names(s) == [i \in 1..Len(s) |-> s[i].name]

\* searchHotels up to its fetch (rule) or to its end (llm).  The button is
\* disabled while isLoadingHotels; the form revision has no hotel search.
searchHotels ==
  /\ HasChatbot
  /\ showFlightSearch
  /\ ~isLoadingHotels
  /\ Len(pendingHotels) < MaxPendingSearches
  /\ IF serpApiKey = ""
     THEN /\ toast' = "SERP API Key Required"
          /\ UNCHANGED <<isLoadingHotels, pendingHotels>>
     ELSE IF ~canSearchHotels(flightParams)
     THEN /\ toast' = "Missing Information"
          /\ UNCHANGED <<isLoadingHotels, pendingHotels>>
     ELSE IF rev = "llm"
     THEN /\ toast' = "CORS Issue Detected"
          /\ pendingHotels' =
               Append(pendingHotels, [kind |-> "timer", budget |-> flightParams.budget])
          /\ isLoadingHotels' = FALSE
     ELSE /\ toast' = "none"
          /\ pendingHotels' = Append(pendingHotels, [kind |-> "fetch"])
          /\ isLoadingHotels' = TRUE
  /\ UNCHANGED <<SearchFrame, isLoadingFlights, flights, hotels, pendingFlights>>

\* searchHotels of rule, from the result of its fetch to the end
searchHotelsResult ==
  /\ \E i \in DOMAIN pendingHotels :
       /\ pendingHotels[i].kind = "fetch"
       /\ pendingHotels' = RemoveAt(pendingHotels, i)
  /\ \E properties \in HotelResponses :
       IF properties # "none" /\ Len(properties) > 0
       THEN /\ hotels' = Slice(properties, MaxHotelsShown)
            /\ toast' = "Hotels Found!"
       ELSE /\ toast' = "No Hotels Found"
            /\ UNCHANGED hotels
  /\ isLoadingHotels' = FALSE
  /\ UNCHANGED <<SearchFrame, isLoadingFlights, flights, pendingFlights>>

\* searchHotels of rule, from a failed fetch to the end
searchHotelsFailed ==
  /\ \E i \in DOMAIN pendingHotels :
       /\ pendingHotels[i].kind = "fetch"
       /\ pendingHotels' = RemoveAt(pendingHotels, i)
  /\ \E kind \in FailureKinds : toast' = "Error"
  /\ isLoadingHotels' = FALSE
  /\ UNCHANGED <<SearchFrame, isLoadingFlights, flights, hotels, pendingFlights>>

\* the setTimeout callback of the llm searchHotels
searchHotelsTimer ==
  /\ \E i \in DOMAIN pendingHotels :
       /\ pendingHotels[i].kind = "timer"
       /\ pendingHotels' = RemoveAt(pendingHotels, i)
       /\ LET filtered == filteredHotels(pendingHotels[i].budget)
          IN  hotels' = Names(IF Len(filtered) > 0 THEN filtered ELSE MockHotels)
  /\ toast' = "Mock Hotels Loaded!"
  /\ isLoadingHotels' = FALSE
  /\ UNCHANGED <<SearchFrame, isLoadingFlights, flights, pendingFlights>>

(* ---------------------------- specifications -------------------------- *)

\* generating itineraries, chatting, and editing the two fields of the search
\* form that need no date: departure city and passengers
ChatNext ==
  \/ setApiKey
  \/ setUserInput
  \/ handleSubmit
  \/ itineraryGenerated
  \/ itineraryNotTravel
  \/ itineraryFailed
  \/ setChatInput
  \/ handleChatSubmitRule
  \/ handleChatSubmit
  \/ handleChatSubmitFailed
  \/ handleChatSubmitNull
  \/ handleChatSubmitResult
  \/ editDepartureCity
  \/ editPassengers

\* filling in the search form and searching flights and hotels
SearchNext ==
  \/ setSerpApiKey
  \/ editDepartureCity
  \/ editPassengers
  \/ editBudget
  \/ editDepartureDate
  \/ editReturnDate
  \/ searchFlights
  \/ searchFlightsResult
  \/ searchFlightsFailed
  \/ searchFlightsTimer
  \/ searchHotels
  \/ searchHotelsResult
  \/ searchHotelsFailed
  \/ searchHotelsTimer

\* the state in which the search form first shows: after the first generated
\* itinerary in the form revision, after the first chat turn in the rule
\* revision, and after the first extraction with updates in the llm revision
SearchInit ==
  /\ rev \in Revisions
  /\ userInput \in UserInputs
  /\ apiKey = "key"
  /\ serpApiKey = ""
  /\ isLoading = FALSE
  /\ isLoadingFlights = FALSE
  /\ isLoadingHotels = FALSE
  /\ travelPlan \in [type : {"plan"}, destination : Destinations,
                     duration : Durations]
  /\ flights = <<>>
  /\ hotels = <<>>
  /\ showFlightSearch = TRUE
  /\ showChatbot = HasChatbot
  /\ chatInput = <<>>
  /\ pendingExtractions = <<>>
  /\ pendingFlights = <<>>
  /\ pendingHotels = <<>>
  /\ IF rev = "form"
     THEN /\ chatMessages = <<>>
          /\ flightParams = DefaultParams
          /\ toast = "Itinerary Generated!"
     ELSE IF rev = "rule"
     THEN \E input \in RuleChatInputs :
            /\ chatMessages =
                 <<Greeting(travelPlan), UserEntry(trim(input)), Acknowledgement>>
            /\ flightParams = ruleBasedParams(DefaultParams, trim(input))
            /\ toast = "none"
     ELSE \E input \in LlmChatInputs, result \in ExtractionResults :
            /\ result.hasUpdates
            /\ result.updates \in {NoUpdates, EveryField(Null)}
            /\ chatMessages =
                 <<Greeting(travelPlan), UserEntry(trim(input)),
                   ReplyEntry(result.responseMessage)>>
            /\ flightParams = mergeUpdates(DefaultParams, result.updates)
            /\ toast = "none"

\* the whole component
Next == ChatNext \/ SearchNext

Spec == Init /\ [][Next]_vars

\* the component from construction, without the searches: the search handlers
\* leave the transcript, the record, showFlightSearch and the outstanding
\* extractions alone (SearchFrame), so every writer of these is in ChatNext
ChatSpec == Init /\ [][ChatNext]_vars

\* the search form from the moment it shows; every SearchInit state is a
\* state of ChatSpec, so every behaviour of SearchSpec continues one of Spec
SearchSpec == SearchInit /\ [][SearchNext]_vars

(* ---------------------- the rule-based extractor alone ----------------- *)

\* "what's my budget"
WhatsMyBudget ==
  <<"w","h","a","t","'","s"," ","m","y"," ","b","u","d","g","e","t">>

\* "I want a luxury trip"
LuxuryTrip ==
  <<"I"," ","w","a","n","t"," ","a"," ","l","u","x","u","r","y"," ","t","r","i","p">>

\* "luxury budget"
LuxuryBudget ==
  <<"l","u","x","u","r","y"," ","b","u","d","g","e","t">>

\* "flying from Chicago"
FlyingFromChicago ==
  <<"f","l","y","i","n","g"," ","f","r","o","m"," ","C","h","i","c","a","g","o">>

\* "departure from NY"
DepartureFromNY ==
  <<"d","e","p","a","r","t","u","r","e"," ","f","r","o","m"," ","N","Y">>

\* "my departure is unclear"
DepartureUnclear ==
  <<"m","y"," ","d","e","p","a","r","t","u","r","e"," ","i","s"," ","u","n","c","l","e","a","r">>

\* "departure?"
DepartureOnly ==
  <<"d","e","p","a","r","t","u","r","e","?">>

\* "2 nights 4 people"
TwoNightsFourPeople ==
  <<"2"," ","n","i","g","h","t","s"," ","4"," ","p","e","o","p","l","e">>

\* "more people"
MorePeople ==
  <<"m","o","r","e"," ","p","e","o","p","l","e">>

\* "3 nights"
ThreeNights ==
  <<"3"," ","n","i","g","h","t","s">>

\* "From  NY , please"
FromNYPlease ==
  <<"F","r","o","m"," "," ","N","Y"," ",","," ","p","l","e","a","s","e">>

\* "3 Passengers"
ThreePassengers ==
  <<"3"," ","P","a","s","s","e","n","g","e","r","s">>

\* "Chicago"
Chicago == <<"C","h","i","c","a","g","o">>

\* what the user may type into the chat box when the rule-based extractor is
\* exercised alone
RuleMessages ==
  { WhatsMyBudget,
    LuxuryTrip,
    LuxuryBudget,
    FlyingFromChicago,
    DepartureFromNY,
    DepartureUnclear,
    DepartureOnly,
    TwoNightsFourPeople,
    MorePeople,
    ThreeNights,
    FromNYPlease,
    ThreePassengers }

\* onChange of the chat box, for the messages above
setChatInputMessage ==
  /\ rev = "rule"
  /\ showChatbot
  /\ \E v \in RuleMessages : chatInput' = v
  /\ toast' = "none"
  /\ UNCHANGED <<Controls, userInput, apiKey, serpApiKey, flightParams>>

\* the rule revision right after its first generated itinerary
RuleInit ==
  /\ rev = "rule"
  /\ userInput \in UserInputs
  /\ apiKey = "key"
  /\ serpApiKey = ""
  /\ isLoading = FALSE
  /\ isLoadingFlights = FALSE
  /\ isLoadingHotels = FALSE
  /\ travelPlan \in [type : {"plan"}, destination : Destinations,
                     duration : Durations]
  /\ flightParams = DefaultParams
  /\ flights = <<>>
  /\ hotels = <<>>
  /\ showFlightSearch = FALSE
  /\ showChatbot = TRUE
  /\ chatMessages = <<Greeting(travelPlan)>>
  /\ chatInput = <<>>
  /\ pendingExtractions = <<>>
  /\ pendingFlights = <<>>
  /\ pendingHotels = <<>>
  /\ toast = "Itinerary Generated!"

\* chatting with the rule-based extractor and choosing a budget in the form
RuleNext ==
  \/ setChatInputMessage
  \/ handleChatSubmitRule
  \/ editBudget

RuleSpec == RuleInit /\ [][RuleNext]_vars

(* ----------------------- the component without keys -------------------- *)

\* the search form shows, as in SearchInit, and the user has cleared the key
\* of the itinerary and chat service; the key of the search service was never
\* entered
NoCredentialInit ==
  /\ rev \in Revisions
  /\ userInput \in UserInputs
  /\ apiKey = ""
  /\ serpApiKey = ""
  /\ isLoading = FALSE
  /\ isLoadingFlights = FALSE
  /\ isLoadingHotels = FALSE
  /\ travelPlan \in [type : {"plan"}, destination : Destinations,
                     duration : Durations]
  /\ flights = <<>>
  /\ hotels = <<>>
  /\ showFlightSearch = TRUE
  /\ showChatbot = HasChatbot
  /\ chatInput = <<>>
  /\ pendingExtractions = <<>>
  /\ pendingFlights = <<>>
  /\ pendingHotels = <<>>
  /\ toast = "none"
  /\ IF rev = "form"
     THEN /\ chatMessages = <<>>
          /\ flightParams = DefaultParams
     ELSE IF rev = "rule"
     THEN \E input \in RuleChatInputs :
            /\ chatMessages =
                 <<Greeting(travelPlan), UserEntry(trim(input)), Acknowledgement>>
            /\ flightParams = ruleBasedParams(DefaultParams, trim(input))
     ELSE \E input \in LlmChatInputs, result \in ExtractionResults :
            /\ result.hasUpdates
            /\ result.updates \in {NoUpdates, EveryField(Null)}
            /\ chatMessages =
                 <<Greeting(travelPlan), UserEntry(trim(input)),
                   ReplyEntry(result.responseMessage)>>
            /\ flightParams = mergeUpdates(DefaultParams, result.updates)

\* what the user can do while both keys are empty: type, edit the search
\* form, and press the four buttons whose handlers need a key
NoCredentialNext ==
  \/ setUserInput
  \/ setChatInput
  \/ editDepartureCity
  \/ editDepartureDate
  \/ editReturnDate
  \/ handleSubmit
  \/ handleChatSubmit
  \/ searchFlights
  \/ searchHotels

NoCredentialSpec == NoCredentialInit /\ [][NoCredentialNext]_vars

(* ------------------------------- properties --------------------------- *)

\* the bounds of the passengers input: min="1"
MinPassengers == 1

\* the bounds of the passengers input: max="9"
MaxPassengers == 9

\* a passenger count the record may hold: an integer from 1 to 9
ValidPassengers(v) ==
  v.type = "number" /\ v.num >= MinPassengers /\ v.num <= MaxPassengers

\* the fields of the parameter record an extraction result can carry
UpdateFields ==
  {"departureCity", "departureDate", "returnDate", "passengers", "budget"}

\* the fields of the parameter record that hold free text
TextFields == {"departureCity", "departureDate", "returnDate"}

\* a value of an extraction result that passes validation for its field
ValidUpdate(field, v) ==
  IF field = "passengers" THEN ValidPassengers(v)
  ELSE IF field = "budget" THEN v.type = "string" /\ v.str \in BudgetOptions
  ELSE v.type = "string" /\ v.str # <<>>

\* what the record holds after a valid value was written to a field
StoredUpdate(field, v) == IF field = "passengers" THEN v ELSE v.str

\* C1: in every reachable state, whatever the revision and whatever edited
\* the record (chat turn or form field), passengers is an integer from 1 to 9.
PassengersInRange == ValidPassengers(flightParams.passengers)

\* C2: a step that merges an extraction result with hasUpdates leaves every
\* field the updates do not carry as it was, and overwrites exactly the carried
\* fields whose value passes validation.
MergeFrame ==
  [][\A i \in DOMAIN pendingExtractions, result \in ExtractionResults :
       (result.hasUpdates /\ extractionResult(i, result)) =>
         \A field \in UpdateFields :
           flightParams'[field] =
             (IF ValidUpdate(field, result.updates[field])
              THEN StoredUpdate(field, result.updates[field])
              ELSE flightParams[field])]_vars

\* the passenger values an extraction must ignore
InvalidPassengerUpdates == {Num(0), Num(-3), Str(<<"a","b","c">>)}

\* C3: merging updates whose passengers is 0, -3 or "abc" leaves passengers
\* as it was while the other carried fields are still applied; merging
\* passengers 4 sets passengers to 4.
PassengersMerge ==
  [][\A i \in DOMAIN pendingExtractions, result \in ExtractionResults :
       (result.hasUpdates /\ extractionResult(i, result)) =>
         /\ result.updates.passengers \in InvalidPassengerUpdates =>
              /\ flightParams'.passengers = flightParams.passengers
              /\ \A field \in TextFields :
                   Truthy(result.updates[field]) =>
                     flightParams'[field] = result.updates[field].str
         /\ result.updates.passengers = Num(4) =>
              flightParams'.passengers = Num(4)]_vars

\* a step of a chat turn, of either extractor
ChatTurnStep ==
  \/ handleChatSubmitRule
  \/ handleChatSubmit
  \/ handleChatSubmitFailed
  \/ handleChatSubmitNull
  \/ handleChatSubmitResult

\* C4: no step of a chat turn, with either extractor, resets a non-empty
\* departure city, departure date or return date to empty.
MonotonicMerge ==
  [][ChatTurnStep =>
       \A field \in TextFields :
         flightParams[field] # <<>> => flightParams'[field] # <<>>]_vars

\* C5: when the extraction of a turn fails, the transcript the turn extended
\* by the user's message and a placeholder ends with that message and exactly
\* one assistant entry, the fallback, in place of the placeholder; the record
\* and the visibility flag stay as they were.
FailedExtractionTurn ==
  [][\A i \in DOMAIN pendingExtractions :
       extractionFailed(i) =>
         LET n == Len(chatMessages)
         IN  /\ n >= 2
             /\ chatMessages[n] = Placeholder
             /\ chatMessages[n - 1] = UserEntry(pendingExtractions[i].userMessage)
             /\ chatMessages' = SubSeq(chatMessages, 1, n - 1) \o <<FallbackReply>>
             /\ flightParams' = flightParams
             /\ showFlightSearch' = showFlightSearch]_vars

\* the entries of a transcript that are no placeholder: user messages and
\* real assistant replies
IsKept(entry) == entry # Placeholder

\* s is an initial segment of t
IsPrefix(s, t) == Len(s) <= Len(t) /\ SubSeq(t, 1, Len(s)) = s

\* C6: the transcript is append-only: no step removes a user message or a real
\* assistant reply; the entries other than placeholders before a step are the
\* first such entries after it.
AppendOnlyTranscript ==
  [][IsPrefix(SelectSeq(chatMessages, IsKept),
              SelectSeq(chatMessages', IsKept))]_vars

\* C7: at most one extraction request is in flight at any time, so a chat
\* submission made while one is unresolved starts no new extraction.
SingleExtractionInFlight == Len(pendingExtractions) <= 1

\* C8: every placeholder is replaced by its turn's reply: when no extraction
\* request is outstanding the transcript holds no placeholder.
NoStalePlaceholder ==
  pendingExtractions = <<>> =>
    \A k \in DOMAIN chatMessages : chatMessages[k] # Placeholder

\* C9: the search-form visibility flag is a one-way latch: no step of chat
\* turns, extraction results, extraction failures or itinerary generations
\* takes it from true to false.
SearchFormLatch == [][showFlightSearch => showFlightSearch']_vars

\* the search form is visible and the last chat turn ended in the fallback
\* reply of a failed extraction
LatchedThroughFailure ==
  /\ showFlightSearch
  /\ chatMessages # <<>>
  /\ chatMessages[Len(chatMessages)] = FallbackReply

\* C10: with a search credential, searchFlights initiates a flight search if
\* and only if departure city, departure date and return date are all
\* non-empty; with one of them empty it only issues the notice and changes
\* neither the results nor the loading flag.
FlightSearchGate ==
  [][(searchFlights /\ serpApiKey # "") =>
       LET complete == /\ flightParams.departureCity # <<>>
                       /\ flightParams.departureDate # <<>>
                       /\ flightParams.returnDate # <<>>
       IN  /\ complete <=> Len(pendingFlights') = Len(pendingFlights) + 1
           /\ ~complete =>
                /\ toast' = "Missing Information"
                /\ pendingFlights' = pendingFlights
                /\ flights' = flights
                /\ isLoadingFlights' = isLoadingFlights]_vars

\* a flight search was initiated with a credential and is still outstanding
FlightSearchInitiated == serpApiKey # "" /\ pendingFlights # <<>>

\* C11: with a search credential, searchHotels initiates a hotel search if and
\* only if departure date and return date are both non-empty, whether or not
\* the departure city is empty.
HotelSearchGate ==
  [][(searchHotels /\ serpApiKey # "") =>
       LET complete == /\ flightParams.departureDate # <<>>
                       /\ flightParams.returnDate # <<>>
       IN  complete <=> Len(pendingHotels') = Len(pendingHotels) + 1]_vars

\* a hotel search was initiated with a credential while the departure city is
\* empty, and is still outstanding
HotelSearchWithoutCity ==
  /\ serpApiKey # ""
  /\ pendingHotels # <<>>
  /\ flightParams.departureCity = <<>>

\* a chat turn the rule-based revision accepts: the message typed is not blank
AcceptedRuleTurn == handleChatSubmitRule /\ trim(chatInput) # <<>>

\* the message of the chat turn that is about to be submitted, in lower case
TypedMessage == toLowerCase(trim(chatInput))

\* the message names the budget-friendly tier, the luxury tier
NamesBudgetFriendly(m) == includes(m, kwBudgetFriendly) \/ includes(m, kwCheap)

NamesLuxury(m) == includes(m, kwLuxury) \/ includes(m, kwPremium)

\* C12: a rule-based chat turn whose message contains "budget" and no tier
\* keyword sets budget to mid-range, whatever it was.
BudgetAloneForcesMidRange ==
  [][(/\ AcceptedRuleTurn
      /\ includes(TypedMessage, kwBudget)
      /\ ~NamesBudgetFriendly(TypedMessage)
      /\ ~NamesLuxury(TypedMessage)) =>
       flightParams'.budget = MidRange]_vars

\* C13: a rule-based chat turn whose message names the luxury tier (and not
\* the budget-friendly one) sets budget to luxury.
LuxuryKeywordSetsLuxury ==
  [][(/\ AcceptedRuleTurn
      /\ NamesLuxury(TypedMessage)
      /\ ~NamesBudgetFriendly(TypedMessage)) =>
       flightParams'.budget = Luxury]_vars

\* C14: a rule-based chat turn whose message does not contain "budget", in
\* any case, leaves budget as it was, whatever else the message contains.
NoBudgetWordKeepsBudget ==
  [][(AcceptedRuleTurn /\ ~includes(TypedMessage, kwBudget)) =>
       flightParams'.budget = flightParams.budget]_vars

\* a turn whose message holds "budget" made the budget budget-friendly, and the
\* next turn, whose message names the luxury tier without that word, kept it
LuxuryTripKeptBudget ==
  /\ Len(chatMessages) = 5
  /\ chatMessages[2] = UserEntry(WhatsMyBudget)
  /\ chatMessages[4] = UserEntry(LuxuryTrip)
  /\ chatMessages[5] = Acknowledgement
  /\ flightParams.budget = BudgetFriendly

\* the <words> of the first "from <words>" of a message: what follows the
\* first "from" that white space follows, from the first character that is no
\* white space up to the next comma, dot or newline, trimmed; empty when the
\* message has no such words
FromWords(m) ==
  LET starts == {p \in 1..Len(m) :
                   /\ LiteralAt(m, p, kwFrom)
                   /\ p + Len(kwFrom) <= Len(m)
                   /\ IsSpace(m[p + Len(kwFrom)])}
  IN  IF starts = {} THEN <<>>
      ELSE LET p     == MinOf(starts)
               rest  == {i \in (p + Len(kwFrom))..Len(m) : ~IsSpace(m[i])}
               g     == IF rest = {} THEN Len(m) + 1 ELSE MinOf(rest)
               stops == {i \in g..Len(m) : m[i] \in {",", ".", "\n"}}
               e     == IF stops = {} THEN Len(m) ELSE MinOf(stops) - 1
           IN  trim(SubSeq(m, g, e))

\* C15: a rule-based chat turn whose message contains "from <words>" sets the
\* departure city to exactly <words>, trimmed, also when the departure
\* pattern could match the message.
FromWordsBecomeCity ==
  [][(AcceptedRuleTurn /\ FromWords(trim(chatInput)) # <<>>) =>
       flightParams'.departureCity = FromWords(trim(chatInput))]_vars

\* "flying from Chicago" was followed by "departure from NY", a message both
\* patterns match, and the departure city is the words after "from"
FromWinsOverDeparture ==
  /\ Len(chatMessages) = 5
  /\ chatMessages[2] = UserEntry(FlyingFromChicago)
  /\ chatMessages[4] = UserEntry(DepartureFromNY)
  /\ matchDeparture(DepartureFromNY) # Null
  /\ flightParams.departureCity = NY

\* messages that hold a trigger keyword and name no city
NoCityMessages == {DepartureUnclear, DepartureOnly}

\* C16: a rule-based chat turn whose message holds "departure" or "from" but no
\* city, such as "my departure is unclear", leaves the departure city as it
\* was.
TriggerWithoutCityKeepsCity ==
  [][(/\ AcceptedRuleTurn
      /\ trim(chatInput) \in NoCityMessages
      /\ \/ includes(TypedMessage, kwDeparture)
         \/ includes(TypedMessage, kwFrom)) =>
       flightParams'.departureCity = flightParams.departureCity]_vars

\* the positions of the digits of a message
DigitPositions(m) == {i \in 1..Len(m) : IsDigit(m[i])}

\* the first integer literal of a message that has a digit: the digits from the
\* first one up to the next character that is none, as a number
FirstInteger(m) ==
  LET first == MinOf(DigitPositions(m))
      after == {i \in first..Len(m) : ~IsDigit(m[i])}
      last  == IF after = {} THEN Len(m) ELSE MinOf(after) - 1
  IN  DecimalValue(SubSeq(m, first, last))

\* C17: a rule-based chat turn changes passengers only when its message
\* contains "passenger" or "people"; then passengers becomes the first integer
\* literal of the message, and stays as it was when the message has none.
PassengersFromFirstInteger ==
  [][AcceptedRuleTurn =>
       LET m         == trim(chatInput)
           triggered == \/ includes(TypedMessage, kwPassenger)
                        \/ includes(TypedMessage, kwPeople)
       IN  flightParams'.passengers =
             (IF triggered /\ DigitPositions(m) # {}
              THEN Num(FirstInteger(m))
              ELSE flightParams.passengers)]_vars

\* "2 nights 4 people" made the passengers 2, the first integer and not the
\* count of people, and "more people", which has no integer, kept them
FirstIntegerTakenThenKept ==
  /\ Len(chatMessages) = 5
  /\ chatMessages[2] = UserEntry(TwoNightsFourPeople)
  /\ chatMessages[4] = UserEntry(MorePeople)
  /\ flightParams.passengers = Num(2)

\* C18: every chat turn the rule-based revision accepts appends the user's
\* message and the same fixed acknowledgement, and makes the search form
\* visible, whether or not the turn changed a field of the record.
AcknowledgeAndReveal ==
  [][AcceptedRuleTurn =>
       /\ chatMessages' =
            chatMessages \o <<UserEntry(trim(chatInput)), Acknowledgement>>
       /\ showFlightSearch']_vars

\* the first turn's message, "3 nights", changed no field of the record; it
\* was acknowledged and the search form is visible
RevealedWithoutUpdate ==
  /\ chatMessages =
       <<Greeting(travelPlan), UserEntry(ThreeNights), Acknowledgement>>
  /\ flightParams = DefaultParams
  /\ showFlightSearch

\* everything but the notice
AllButToast ==
  <<rev, userInput, apiKey, serpApiKey, isLoading, isLoadingFlights,
    isLoadingHotels, travelPlan, flightParams, flights, hotels,
    showFlightSearch, showChatbot, chatMessages, chatInput,
    pendingExtractions, pendingFlights, pendingHotels>>

\* C19: with its key empty, each of itinerary generation, LLM chat extraction,
\* flight search and hotel search starts no remote call and changes no state;
\* its only effect is its notice.
MissingCredentialOnlyNotice ==
  [][/\ (handleSubmit /\ apiKey = "") =>
          toast' = "API Key Required" /\ UNCHANGED AllButToast
     /\ (handleChatSubmit /\ apiKey = "") =>
          /\ UNCHANGED AllButToast
          /\ trim(chatInput) # <<>> => toast' = "Groq API Key Required"
     /\ ((searchFlights \/ searchHotels) /\ serpApiKey = "") =>
          toast' = "SERP API Key Required" /\ UNCHANGED AllButToast]_vars

\* a chat message was submitted without a key: the notice shows and the
\* message is still in the chat box, with no extraction outstanding
ChatRefusedWithoutKey ==
  /\ apiKey = ""
  /\ toast = "Groq API Key Required"
  /\ trim(chatInput) # <<>>
  /\ pendingExtractions = <<>>

\* C20: while an extraction request is outstanding, the record changes only in
\* a step that merges an extraction result; no other operation mutates it.
RecordOnlyByExtractor ==
  [][(pendingExtractions # <<>> /\ flightParams' # flightParams) =>
       handleChatSubmitResult]_vars

\* C21: when the itinerary request is classified as not a travel request, no
\* itinerary is displayed afterwards (travelPlan is absent), the chatbot and
\* the transcript are not initialised again, and the user is notified.
NotTravelShowsNoItinerary ==
  [][itineraryNotTravel =>
       /\ travelPlan' = NoPlan
       /\ UNCHANGED <<showChatbot, chatMessages>>
       /\ toast' = "Not a Travel Request"]_vars

\* C22: a failed itinerary generation leaves the record, the transcript, the
\* chatbot's visibility and the search form's visibility unchanged, issues an
\* error notice, and returns the loading flag to false.
FailedGenerationFrame ==
  [][itineraryFailed =>
       /\ UNCHANGED <<flightParams, chatMessages, showChatbot,
                      showFlightSearch>>
       /\ toast' = "Error"
       /\ ~isLoading']_vars

\* a generation failed after the chat had filled the record and shown the
\* form: the error shows over the conversation, which is all still there
FailedOverConversation ==
  /\ toast = "Error"
  /\ ~isLoading
  /\ showChatbot
  /\ showFlightSearch
  /\ Len(chatMessages) >= 3
  /\ flightParams # DefaultParams

\* C23: whenever an itinerary generation completes successfully, the first or
\* a later one, the record holds its defaults: city and dates unset, one
\* passenger, mid-range budget.
GenerationResetsRecord ==
  [][itineraryGenerated => flightParams' = DefaultParams]_vars

(* ---------------- the LLM extractor, every request resolving ---------- *)

\* the LLM revision right after handleSubmit generated the first itinerary
ExtractionInit ==
  /\ rev = "llm"
  /\ userInput \in UserInputs
  /\ apiKey = "key"
  /\ serpApiKey = ""
  /\ isLoading = FALSE
  /\ isLoadingFlights = FALSE
  /\ isLoadingHotels = FALSE
  /\ travelPlan \in [type : {"plan"}, destination : Destinations,
                     duration : Durations]
  /\ flightParams = DefaultParams
  /\ flights = <<>>
  /\ hotels = <<>>
  /\ showFlightSearch = FALSE
  /\ showChatbot = TRUE
  /\ chatMessages = <<Greeting(travelPlan)>>
  /\ chatInput = <<>>
  /\ pendingExtractions = <<>>
  /\ pendingFlights = <<>>
  /\ pendingHotels = <<>>
  /\ toast = "Itinerary Generated!"

\* the await of the LLM handleChatSubmit resumes: the call failed, or its
\* content parsed to null, or it parsed to an object
extractionSettled ==
  \/ handleChatSubmitFailed
  \/ handleChatSubmitNull
  \/ handleChatSubmitResult

\* chatting with the LLM extractor
ExtractionNext ==
  \/ setChatInput
  \/ handleChatSubmit
  \/ handleChatSubmitFailed
  \/ handleChatSubmitNull
  \/ handleChatSubmitResult

\* the remote call of every outstanding request eventually returns or fails,
\* and the handler then runs to its end
ExtractionSpec ==
  ExtractionInit /\ [][ExtractionNext]_vars /\ WF_vars(extractionSettled)

\* the last entry of the transcript is the model's reply or the fallback
Answered(transcript) ==
  /\ transcript # <<>>
  /\ \/ transcript[Len(transcript)] = FallbackReply
     \/ \E text \in ResponseMessages :
          transcript[Len(transcript)] = ReplyEntry(text)

\* C24: assuming the remote call eventually returns or fails, every extraction
\* request that was sent is eventually settled, and the step that settles it
\* appends an assistant entry that is the model's reply or the fallback; no
\* sent request ends without a reply.
EveryRequestAnswered ==
  /\ [][extractionSettled => Answered(chatMessages')]_vars
  /\ (pendingExtractions # <<>>) ~>
       (pendingExtractions = <<>> /\ Answered(chatMessages))

\* two requests were in flight together and both are settled, the second by
\* the fallback
BothRequestsAnswered ==
  /\ pendingExtractions = <<>>
  /\ Len(chatMessages) = 5
  /\ chatMessages[2].role = "user"
  /\ chatMessages[4].role = "user"
  /\ chatMessages[5] = FallbackReply

\* C25: on every turn of the LLM extractor whose extraction succeeds, every
\* defined field of updates is merged into the record, whether hasUpdates is
\* set or not.
DefinedFieldsAlwaysMerged ==
  [][\A i \in DOMAIN pendingExtractions, result \in ExtractionResults :
       extractionResult(i, result) =>
         \A field \in UpdateFields :
           ValidUpdate(field, result.updates[field]) =>
             flightParams'[field] =
               StoredUpdate(field, result.updates[field])]_vars

\* C26: when the content of the response parses to null, the turn removes
\* exactly one entry, its own placeholder: the user's message of the turn is
\* still in the transcript and the fallback reply follows it immediately.
NullContentKeepsUserMessage ==
  [][\A i \in DOMAIN pendingExtractions :
       (/\ extractionNull(i)
        /\ Len(chatMessages) >= 2
        /\ chatMessages[Len(chatMessages)] = Placeholder
        /\ chatMessages[Len(chatMessages) - 1] =
             UserEntry(pendingExtractions[i].userMessage)) =>
         chatMessages' = DropLast(chatMessages) \o <<FallbackReply>>]_vars

\* C27: whenever the chatbot is shown, the first entry of the transcript is the
\* greeting written by the most recent successful itinerary generation, also
\* when a generation completes while an extraction request is in flight.
GreetingStaysFirst ==
  showChatbot =>
    /\ chatMessages # <<>>
    /\ chatMessages[1] = Greeting(travelPlan)

\* C28: in every revision, real API or delayed mock data, the loading flag of
\* a search is true from the start of the search until its results or its
\* failure are recorded, so at most one search of a kind is outstanding.
LoadingWhileSearching ==
  /\ pendingFlights # <<>> => isLoadingFlights
  /\ pendingHotels # <<>> => isLoadingHotels
  /\ Len(pendingFlights) <= 1
  /\ Len(pendingHotels) <= 1

\* C29: in every reachable state of every revision, the chatbot and the search
\* form are visible only if an itinerary exists.
VisibleOnlyWithItinerary ==
  /\ showChatbot => travelPlan # NoPlan
  /\ showFlightSearch => travelPlan # NoPlan

\* the chatbot and the search form are showing and a later request was
\* classified as not a travel request
VisibleAfterNotTravel ==
  /\ showChatbot
  /\ showFlightSearch
  /\ toast = "Not a Travel Request"

\* C30: a flight or hotel search that fails or returns no offers leaves the
\* stored results as they were, and a successful search through the real API
\* stores at most 5 flights and at most 6 hotels.
FailedSearchKeepsResults ==
  [][/\ (searchFlightsFailed
           \/ (searchFlightsResult /\ toast' = "No Flights Found")) =>
          flights' = flights
     /\ (searchHotelsFailed
           \/ (searchHotelsResult /\ toast' = "No Hotels Found")) =>
          hotels' = hotels
     /\ (searchFlightsResult /\ toast' = "Flights Found!") =>
          Len(flights') \in 1..5
     /\ (searchHotelsResult /\ toast' = "Hotels Found!") =>
          Len(hotels') \in 1..6]_vars

\* five flights and six hotels are stored, cut from longer responses, and a
\* later flight search that returned no offers left them there
CutResultsKept ==
  /\ Len(flights) = 5
  /\ Len(hotels) = 6
  /\ toast = "No Flights Found"

====
